---- MODULE Spec2Model ----
(***************************************************************************)
(* sequelize-paranoid-delete                                               *)
(*                                                                         *)
(* Two programs live in the repository and both are modelled here:         *)
(*                                                                         *)
(*   - src/index.ts: queryInterfaceDecorator, the Proxy around a sequelize *)
(*     QueryInterface that issues CREATE TRIGGER statements after          *)
(*     addColumn / createTable (specification SpecMig);                    *)
(*   - src/sequelize-paranoid-delete.ts: the interactive command line      *)
(*     session driven by readline 'line' events (specifications Spec and   *)
(*     SpecSeq).                                                           *)
(*                                                                         *)
(* JavaScript runs one callback at a time: an async function runs without  *)
(* interruption up to its next `await`.  Every action below is one such    *)
(* run-to-await segment, or the settling of a promise by the environment   *)
(* (the database answering a statement).                                   *)
(***************************************************************************)
EXTENDS Naturals, Sequences, FiniteSets, TLC

VARIABLES
  \* ---- src/index.ts -------------------------------------------------
  getPrimaryKey,    \* options?.getPrimaryKey of the decorator
  call,             \* the decorated call: command and args
  mpc,              \* where the async wrapper (index.ts:63) stands
  origCalls,        \* args of every Reflect.apply(origMethod, target, args)
  commandPromise,   \* the promise the underlying method returned
  queries,          \* every target.sequelize.query(statement), in issue order
  outcome,          \* the promise the decorated call returned
  \* ---- src/sequelize-paranoid-delete.ts -----------------------------
  options,          \* the parsed .spdrc configuration
  main,             \* where the process stands: main (223-231), up(), exit
  schema,           \* the foreign keys the information schema lists
  triggers,         \* names of the triggers installed in the database
  scanned,          \* `let scanned` of up()
  tableRelations,   \* `let tableRelations` of up()
  prompt,           \* what rl.setPrompt() last set
  handlers,         \* the 'line' listeners suspended at an await
  nlines,           \* lines read so far in this run
  run,              \* which run of the program this is
  cascadeOnly,      \* every line read so far, in every run, was y or c
  sqlFailures,      \* the kinds of statement that have failed, in any run
  log               \* statements issued, relations prompted and elements
                    \* shifted in this run; what the run before created
                    \* and what it found covered

migVars == <<getPrimaryKey, call, mpc, origCalls, commandPromise, queries, outcome>>

cliVars == <<options, main, schema, triggers, scanned, tableRelations,
             prompt, handlers, nlines, run, cascadeOnly, sqlFailures, log>>

vars == <<migVars, cliVars>>

-----------------------------------------------------------------------------
(***************************************************************************)
(* Bounds of the model.                                                    *)
(***************************************************************************)
MaxCols == 2        \* columns of a createTable call
MaxRels == 2        \* foreign keys the information schema lists
MaxLines == 3       \* input lines read in one run

-----------------------------------------------------------------------------
(***************************************************************************)
(* JavaScript values.                                                      *)
(***************************************************************************)
Undefined == "<undefined>"

\* a ?? b
Nullish(a, b) == IF a = Undefined THEN b ELSE a

\* if (s) for a string or undefined
Truthy(s) == s # Undefined /\ s # ""

Last(s) == s[Len(s)]

Range(s) == {s[i] : i \in DOMAIN s}

-----------------------------------------------------------------------------
(***************************************************************************)
(* src/index.ts: the values a migration passes to the decorated interface. *)
(***************************************************************************)
Tables == {"customers", "warehouses", "orders"}

\* the names Object.entries(columns) yields, in insertion order
ColumnNames == <<"fk_a", "fk_b", "fk_c", "fk_d">>

\* commands a migration calls on the decorated interface
Commands == {"addColumn", "createTable", "changeColumn", "dropTable"}

\* `references` of a column description: absent, a table name, or { model, key? }
References ==
  {[form |-> "absent", model |-> Undefined, key |-> Undefined]}
    \cup [form : {"string"}, model : {"customers", "warehouses"}, key : {Undefined}]
    \cup [form : {"object"}, model : {"customers", "warehouses"}, key : {Undefined, "uuid"}]

\* a column description (AddColumnAttributeParameter): a bare data type, or an
\* options object with or without onDelete and references
ColumnSpecs ==
  {[isObject |-> FALSE, onDelete |-> Undefined,
    references |-> [form |-> "absent", model |-> Undefined, key |-> Undefined]]}
    \cup [isObject : {TRUE}, onDelete : {"PARANOID CASCADE"}, references : References]
    \cup [isObject : {TRUE}, onDelete : {"CASCADE"},
          references : {r \in References : r.form = "string" /\ r.model = "customers"}]

\* options?.getPrimaryKey: not supplied, or a function of the table name
Resolvers ==
  {[supplied |-> FALSE, map |-> [t \in Tables |-> Undefined]],
   [supplied |-> TRUE,
    map |-> [t \in Tables |-> IF t = "customers" THEN "customer_no" ELSE "code"]]}

\* getPrimaryKey?.(table)
CallResolver(resolver, table) ==
  IF resolver.supplied THEN resolver.map[table] ELSE Undefined

\* the holes of the CREATE TRIGGER template, index.ts:18-29
createParanoidDeleteTriggerStatement(primaryTable, primaryKey, foreignTable, foreignKey) ==
  [trigger |-> "on_" \o primaryTable \o "_delete_update_" \o foreignTable,
   onTable |-> primaryTable,
   updateTable |-> foreignTable,
   whereColumn |-> foreignKey,
   newColumn |-> primaryKey]

NoProps == [primaryTable |-> Undefined, primaryKey |-> Undefined]

\* the resolver asked before the explicit key is looked at
MutGetPrimaryTableProps(spec, resolver) ==
  IF spec.isObject /\ spec.onDelete = "PARANOID CASCADE" /\ spec.references.form # "absent"
  THEN [primaryTable |-> spec.references.model,
        primaryKey |-> Nullish(CallResolver(resolver, spec.references.model),
                         Nullish(spec.references.key, "id"))]
  ELSE NoProps

\* index.ts:31-53; null is NoProps
getPrimaryTableProps(spec, resolver) ==
  IF spec.isObject /\ spec.onDelete = "PARANOID CASCADE" /\ spec.references.form # "absent"
  THEN IF spec.references.form = "string"
       THEN [primaryTable |-> spec.references.model,
             primaryKey |-> Nullish(CallResolver(resolver, spec.references.model), "id")]
       ELSE [primaryTable |-> spec.references.model,
             primaryKey |-> Nullish(spec.references.key,
                              Nullish(CallResolver(resolver, spec.references.model), "id"))]
  ELSE NoProps

\* args of a call: (tableName, columnName, attribute) for addColumn and the other
\* column commands, (tableName, columns) for createTable
NoArgs == [tableName |-> Undefined, columnName |-> Undefined, columns |-> <<>>]

ColumnLists == UNION {[1..n -> ColumnSpecs] : n \in 0..MaxCols}

ArgsOf(command) ==
  IF command = "createTable"
  THEN [tableName : {"orders"}, columnName : {Undefined}, columns : ColumnLists]
  ELSE IF command = "dropTable"
  THEN [tableName : {"orders"}, columnName : {Undefined}, columns : {<<>>}]
  ELSE [tableName : {"orders"}, columnName : {ColumnNames[1]},
        columns : {<<s>> : s \in ColumnSpecs}]

Pending == [state |-> "pending", value |-> Undefined]

\* what the underlying method may resolve with, and reject with
CommandResults == {"result"}
CommandErrors == {"MigrationOperationError"}

\* the error statement number i rejects with
QueryError(i) == "TriggerError" \o ToString(i)

MigInit ==
  /\ getPrimaryKey \in Resolvers
  /\ call = [command |-> "none", args |-> NoArgs]
  /\ mpc = "idle"
  /\ origCalls = <<>>
  /\ commandPromise = Pending
  /\ queries = <<>>
  /\ outcome = Pending

\* only the first annotated column gets its statement
RECURSIVE MutTableStatements(_, _, _, _)
MutTableStatements(newTable, columns, resolver, i) ==
  IF i > Len(columns) THEN <<>>
  ELSE LET props == getPrimaryTableProps(columns[i], resolver)
       IN IF props # NoProps
          THEN <<createParanoidDeleteTriggerStatement(
                   props.primaryTable, props.primaryKey, newTable, ColumnNames[i])>>
          ELSE MutTableStatements(newTable, columns, resolver, i + 1)

\* the statements createTable issues: one per entry whose props are not null,
\* in Object.entries order (index.ts:97-112)
RECURSIVE TableStatements(_, _, _, _)
TableStatements(newTable, columns, resolver, i) ==
  IF i > Len(columns) THEN <<>>
  ELSE LET props == getPrimaryTableProps(columns[i], resolver)
           rest == TableStatements(newTable, columns, resolver, i + 1)
       IN IF props # NoProps
          THEN <<createParanoidDeleteTriggerStatement(
                   props.primaryTable, props.primaryKey, newTable, ColumnNames[i])>> \o rest
          ELSE rest

Issue(statements) ==
  [i \in 1..Len(statements) |-> [statement |-> statements[i], state |-> "pending"]]

-----------------------------------------------------------------------------
(***************************************************************************)
(* src/index.ts: the async wrapper the Proxy returns for a method.         *)
(***************************************************************************)

\* the await forgotten: the wrapper runs on while the command is pending
MutAwaitSettled(p) == TRUE

\* `await p` resumes once p is settled (index.ts:76, 94)
AwaitSettled(p) == p.state # "pending"

\* the rejection swallowed: the wrapper runs on after a failed command
MutAwaitThrows(p) == FALSE

\* `await p` throws p's reason when p is rejected: the async function stops
\* there and its own promise is rejected with the same reason
AwaitThrows(p) == p.state = "rejected"

\* every command that takes a column description is intercepted
MutSuspendsAt(command, args, resolver) ==
  IF command \in {"addColumn", "changeColumn"}
     /\ Truthy(getPrimaryTableProps(args.columns[1], resolver).primaryTable)
  THEN "await76"
  ELSE IF command = "createTable" THEN "await94" ELSE "return118"

\* index.ts:68-118: where the wrapper suspends after Reflect.apply
SuspendsAt(command, args, resolver) ==
  IF command = "addColumn"
     /\ Truthy(getPrimaryTableProps(args.columns[1], resolver).primaryTable)
  THEN "await76"
  ELSE IF command = "createTable" THEN "await94" ELSE "return118"

\* index.ts:64-76, 91-94, 118: the call of a decorated method, up to its
\* first await
Invoke ==
  /\ mpc = "idle"
  /\ \E command \in Commands : \E args \in ArgsOf(command) :
       /\ call' = [command |-> command, args |-> args]
       /\ origCalls' = Append(origCalls, args)
       /\ mpc' = SuspendsAt(command, args, getPrimaryKey)
  /\ UNCHANGED <<getPrimaryKey, commandPromise, queries, outcome>>
  /\ UNCHANGED cliVars

\* the underlying QueryInterface method completes
CommandFulfils ==
  /\ mpc # "idle"
  /\ commandPromise.state = "pending"
  /\ \E v \in CommandResults : commandPromise' = [state |-> "fulfilled", value |-> v]
  /\ UNCHANGED <<getPrimaryKey, call, mpc, origCalls, queries, outcome>>
  /\ UNCHANGED cliVars

\* the underlying QueryInterface method fails
CommandRejects ==
  /\ mpc # "idle"
  /\ commandPromise.state = "pending"
  /\ \E e \in CommandErrors : commandPromise' = [state |-> "rejected", value |-> e]
  /\ UNCHANGED <<getPrimaryKey, call, mpc, origCalls, queries, outcome>>
  /\ UNCHANGED cliVars

\* index.ts:76-85: addColumn with a cascade annotation, after the await
ResumeAddColumn ==
  /\ mpc = "await76"
  /\ AwaitSettled(commandPromise)
  /\ IF AwaitThrows(commandPromise)
     THEN /\ outcome' = commandPromise
          /\ mpc' = "done"
          /\ UNCHANGED queries
     ELSE LET props == getPrimaryTableProps(call.args.columns[1], getPrimaryKey)
          IN /\ queries' = Issue(<<createParanoidDeleteTriggerStatement(
                                     props.primaryTable, props.primaryKey,
                                     call.args.tableName, call.args.columnName)>>)
             /\ mpc' = "await85"
             /\ UNCHANGED outcome
  /\ UNCHANGED <<getPrimaryKey, call, origCalls, commandPromise>>
  /\ UNCHANGED cliVars

\* index.ts:94-115: createTable, after the await; Promise.all of no promise
\* is fulfilled at once
ResumeCreateTable ==
  /\ mpc = "await94"
  /\ AwaitSettled(commandPromise)
  /\ IF AwaitThrows(commandPromise)
     THEN /\ outcome' = commandPromise
          /\ mpc' = "done"
          /\ UNCHANGED queries
     ELSE LET statements ==
                TableStatements(call.args.tableName, call.args.columns, getPrimaryKey, 1)
          IN /\ queries' = Issue(statements)
             /\ IF statements = <<>>
                THEN /\ outcome' = [state |-> "fulfilled", value |-> commandPromise.value]
                     /\ mpc' = "done"
                ELSE /\ mpc' = "await96"
                     /\ UNCHANGED outcome
  /\ UNCHANGED <<getPrimaryKey, call, origCalls, commandPromise>>
  /\ UNCHANGED cliVars

\* index.ts:118: return commandPromise
ReturnCommandPromise ==
  /\ mpc = "return118"
  /\ AwaitSettled(commandPromise)
  /\ outcome' = commandPromise
  /\ mpc' = "done"
  /\ UNCHANGED <<getPrimaryKey, call, origCalls, commandPromise, queries>>
  /\ UNCHANGED cliVars

SetState(qs, i, st) == [qs EXCEPT ![i].state = st]

AllFulfilled(qs) == \A i \in DOMAIN qs : qs[i].state = "fulfilled"

\* a trigger statement succeeds; index.ts:85-87 and 96-115: the await returns
\* when it was the last one, and the wrapper returns commandResult
QueryFulfils ==
  /\ \E i \in DOMAIN queries :
       /\ queries[i].state = "pending"
       /\ queries' = SetState(queries, i, "fulfilled")
       /\ IF mpc \in {"await85", "await96"} /\ AllFulfilled(queries')
          THEN /\ outcome' = [state |-> "fulfilled", value |-> commandPromise.value]
               /\ mpc' = "done"
          ELSE UNCHANGED <<outcome, mpc>>
  /\ UNCHANGED <<getPrimaryKey, call, origCalls, commandPromise>>
  /\ UNCHANGED cliVars

\* a wrapper that swallows the failure of a trigger statement
MutQueryRejects ==
  /\ \E i \in DOMAIN queries :
       /\ queries[i].state = "pending"
       /\ queries' = SetState(queries, i, "rejected")
       /\ IF mpc \in {"await85", "await96"}
          THEN /\ outcome' = [state |-> "fulfilled", value |-> commandPromise.value]
               /\ mpc' = "done"
          ELSE UNCHANGED <<outcome, mpc>>
  /\ UNCHANGED <<getPrimaryKey, call, origCalls, commandPromise>>
  /\ UNCHANGED cliVars

\* a trigger statement fails; the await (of the statement, or of Promise.all,
\* which rejects with the first rejection) throws its error
QueryRejects ==
  /\ \E i \in DOMAIN queries :
       /\ queries[i].state = "pending"
       /\ queries' = SetState(queries, i, "rejected")
       /\ IF mpc \in {"await85", "await96"}
          THEN /\ outcome' = [state |-> "rejected", value |-> QueryError(i)]
               /\ mpc' = "done"
          ELSE UNCHANGED <<outcome, mpc>>
  /\ UNCHANGED <<getPrimaryKey, call, origCalls, commandPromise>>
  /\ UNCHANGED cliVars

MigNext ==
  \/ Invoke
  \/ CommandFulfils
  \/ CommandRejects
  \/ ResumeAddColumn
  \/ ResumeCreateTable
  \/ ReturnCommandPromise
  \/ QueryFulfils
  \/ QueryRejects

MigIdle ==
  /\ getPrimaryKey = [supplied |-> FALSE, map |-> [t \in Tables |-> Undefined]]
  /\ call = [command |-> "none", args |-> NoArgs]
  /\ mpc = "idle"
  /\ origCalls = <<>>
  /\ commandPromise = Pending
  /\ queries = <<>>
  /\ outcome = Pending

-----------------------------------------------------------------------------
(***************************************************************************)
(* src/sequelize-paranoid-delete.ts: the database and the configuration.   *)
(***************************************************************************)
Relation(t, c, rt, rc) ==
  [tableName |-> t, columnName |-> c,
   referencedTableName |-> rt, referencedColumnName |-> rc]

NoRelation == Relation(Undefined, Undefined, Undefined, Undefined)

\* the foreign keys a schema may hold; two of them join the same two tables
ForeignKeys ==
  {Relation("orders", "customer_id", "customers", "id"),
   Relation("orders", "billing_id", "customers", "id"),
   Relation("customers", "warehouse_id", "warehouses", "id"),
   Relation("orders", "tenant_id", "tenants", "tenant_id")}

\* two foreign keys between different tables whose names contain the
\* separator of the trigger name
SeparatorKeys ==
  {Relation("delete_update_log", "job_id", "jobs", "id"),
   Relation("log", "run_id", "jobs_delete_update", "id")}

\* the tables that have a deletedAt column, as the database lists them
SoftDeleteTables ==
  <<"customers", "orders", "warehouses", "tenants", "delete_update_log", "log">>

Injective(f) == \A i, j \in DOMAIN f : f[i] = f[j] => i = j

\* the lists of foreign keys the database may answer with
Schemas ==
  {f \in UNION {[1..n -> ForeignKeys] : n \in 0..MaxRels} : Injective(f)}
    \cup {f \in [1..2 -> SeparatorKeys] : Injective(f)}

\* string[] | null
Null == [isNull |-> TRUE, items |-> {}]
List(items) == [isNull |-> FALSE, items |-> items]

\* if (list): null is falsy, every array is truthy
IsSet(list) == ~list.isNull

Includes(list, x) == x \in list.items

\* the filter part of Options (sequelize-paranoid-delete.ts:26-28)
Configs ==
  {[allowListTables |-> Null, denyListTables |-> Null, tenantColumns |-> Null],
   [allowListTables |-> List({"orders"}), denyListTables |-> Null, tenantColumns |-> Null],
   [allowListTables |-> Null, denyListTables |-> List({"orders"}), tenantColumns |-> Null],
   [allowListTables |-> Null, denyListTables |-> Null, tenantColumns |-> List({"tenant_id"})],
   [allowListTables |-> List({"orders"}), denyListTables |-> List({"customers"}),
    tenantColumns |-> Null],
   [allowListTables |-> List({}), denyListTables |-> List({}), tenantColumns |-> Null]}

\* ./utils/buildTriggerName
buildTriggerName(parentTable, childTable) ==
  "on_" \o parentTable \o "_delete_update_" \o childTable

\* ./utils/buildCreateTriggerStatement
buildCreateTriggerStatement(parentTable, parentKey, childTable, childKey) ==
  [trigger |-> buildTriggerName(parentTable, childTable),
   onTable |-> parentTable,
   updateTable |-> childTable,
   whereColumn |-> childKey,
   newColumn |-> parentKey]

NoStatement ==
  [trigger |-> Undefined, onTable |-> Undefined, updateTable |-> Undefined,
   whereColumn |-> Undefined, newColumn |-> Undefined]

\* ./utils/buildExistTriggerStatement with ./utils/unwrapSelect: what the
\* statement answers when the database holds the triggers `installed`
TriggerExists(parentTable, childTable, installed) ==
  buildTriggerName(parentTable, childTable) \in installed

\* ./utils/getSoftDeleteTableNames
getSoftDeleteTableNames == SoftDeleteTables

\* ./utils/getForeignKeysTableRelations: the foreign keys whose own table is
\* one of tableNames
getForeignKeysTableRelations(tableNames, fks) ==
  SelectSeq(fks, LAMBDA r : r.tableName \in Range(tableNames))

\* sequelize-paranoid-delete.ts:73-81
KeepTable(opts, tableName) ==
  IF IsSet(opts.allowListTables) THEN Includes(opts.allowListTables, tableName)
  ELSE IF IsSet(opts.denyListTables) THEN ~Includes(opts.denyListTables, tableName)
  ELSE TRUE

\* a filter that keeps every relation
MutKeepRelation(opts, r) == TRUE

\* sequelize-paranoid-delete.ts:86-91
KeepRelation(opts, r) ==
  IF IsSet(opts.tenantColumns) THEN ~Includes(opts.tenantColumns, r.referencedColumnName)
  ELSE TRUE

\* the hasher getTableRelations passes to dedupe (93-95)
Hash(r) == buildTriggerName(r.referencedTableName, r.tableName)

\* the keys of `uniques` in the order they were first assigned
RECURSIVE KeysOf(_)
KeysOf(array) ==
  IF array = <<>> THEN <<>>
  ELSE LET front == KeysOf(SubSeq(array, 1, Len(array) - 1))
           k == Hash(Last(array))
       IN IF k \in Range(front) THEN front ELSE Append(front, k)

\* uniques[k] had the forEach kept the first item hashed to k
MutLastWith(array, k) ==
  array[CHOOSE i \in DOMAIN array :
          /\ Hash(array[i]) = k
          /\ \A j \in DOMAIN array : Hash(array[j]) = k => i <= j]

\* uniques[k] after the forEach: the last item hashed to k
LastWith(array, k) ==
  array[CHOOSE i \in DOMAIN array :
          /\ Hash(array[i]) = k
          /\ \A j \in DOMAIN array : Hash(array[j]) = k => j <= i]

\* sequelize-paranoid-delete.ts:31-37: Object.values lists the values in the
\* order their keys were created
dedupe(array) ==
  LET keys == KeysOf(array)
  IN [i \in 1..Len(keys) |-> LastWith(array, keys[i])]

\* sequelize-paranoid-delete.ts:69-96, given what the two queries answered
getTableRelations(opts, softDeleteTableNames, fks) ==
  LET tableNames == SelectSeq(softDeleteTableNames, LAMBDA t : KeepTable(opts, t))
      relations == SelectSeq(getForeignKeysTableRelations(tableNames, fks),
                             LAMBDA r : KeepRelation(opts, r))
  IN dedupe(relations)

-----------------------------------------------------------------------------
(***************************************************************************)
(* src/sequelize-paranoid-delete.ts: the process and its 'line' listener.  *)
(*                                                                         *)
(* A listener suspended at an await is a record of `handlers`:             *)
(*   pc "softDelete"   awaiting getSoftDeleteTableNames (line 71)          *)
(*   pc "foreignKeys"  awaiting getForeignKeysTableRelations (line 84)     *)
(*   pc "exists"       awaiting the existence check of `relation` (46)     *)
(*   pc "create"       awaiting the CREATE TRIGGER of `relation` (142)     *)
(*   pc "tick"         awaiting, at line 60, the null that getNextRelation *)
(*                     returned without awaiting anything: it resumes when *)
(*                     the lines read in the same chunk have been handled  *)
(* `n` is the number of its line in the run, and `solo` says that no other *)
(* listener was suspended when that line was read.                         *)
(***************************************************************************)
Handler(line, n, pc, relation, solo) ==
  [line |-> line, n |-> n, pc |-> pc, relation |-> relation, solo |-> solo]

\* the listener of the line being read
NewHandler(line, pc, relation) ==
  Handler(line, nlines + 1, pc, relation, handlers = <<>>)

AwaitsSql == {"softDelete", "foreignKeys", "exists", "create"}

\* a listener at "tick" resumes before the event loop takes the next answer
\* of the database
NoTick == \A i \in DOMAIN handlers : handlers[i].pc # "tick"

\* an entry of `log`: what listener h did (ev) to which relation, on behalf of
\* which relation (target), with which statement
Ev(kind, h, relation, target, statement) ==
  [run |-> run, ev |-> kind, by |-> h.line, n |-> h.n, solo |-> h.solo,
   relation |-> relation, target |-> target, statement |-> statement]

RemoveAt(hs, i) == SubSeq(hs, 1, i - 1) \o SubSeq(hs, i + 1, Len(hs))

HeadOf(q) == IF q = <<>> THEN NoRelation ELSE Head(q)

\* a shift that removes nothing
MutShift(q) == q

\* tableRelations.shift()
Shift(q) == IF q = <<>> THEN <<>> ELSE Tail(q)

\* what a shift of kind `kind` ("shift" at 147 and 181, "skip" at 52) by
\* listener h, made on behalf of relation `target`, takes out
ShiftLog(kind, q, h, target) ==
  IF q = <<>> THEN <<>> ELSE <<Ev(kind, h, Head(q), target, NoStatement)>>

\* sequelize-paranoid-delete.ts:40-49: the statement getNextRelation issues
ExistsLog(q, h) ==
  IF q = <<>> THEN <<>> ELSE <<Ev("exists", h, Head(q), NoRelation, NoStatement)>>

\* sequelize-paranoid-delete.ts:45-51: the answer of the existence check
triggerExists(relation, installed) ==
  TriggerExists(relation.referencedTableName, relation.tableName, installed)

\* the CREATE TRIGGER statements the database has received and not answered
InFlightCreates(hs) ==
  {buildTriggerName(hs[i].relation.referencedTableName, hs[i].relation.tableName) :
     i \in {j \in DOMAIN hs : hs[j].pc = "create"}}

\* sequelize-paranoid-delete.ts:217-220 (rl.close(), whose 'close' listener
\* calls process.exit(0)) and the death of the process on an unhandled
\* rejection: the listeners are gone; the statements the database had
\* received may still run
Exits(status, hs, installed) ==
  /\ main' = status
  /\ handlers' = <<>>
  /\ \E ran \in SUBSET InFlightCreates(hs) : triggers' = installed \cup ran

\* a main that starts the session whatever the configuration
MutMain ==
  /\ main = "start"
  /\ main' = "up"
  /\ UNCHANGED <<options, schema, triggers, scanned, tableRelations, prompt,
                 handlers, nlines, run, cascadeOnly, sqlFailures, log>>
  /\ UNCHANGED migVars

\* sequelize-paranoid-delete.ts:223-230 and 98-118
Main ==
  /\ main = "start"
  /\ main' = IF IsSet(options.allowListTables) /\ IsSet(options.denyListTables)
             THEN "threw" ELSE "up"
  /\ UNCHANGED <<options, schema, triggers, scanned, tableRelations, prompt,
                 handlers, nlines, run, cascadeOnly, sqlFailures, log>>
  /\ UNCHANGED migVars

\* a line is read; with atPrompt the operator types only when the program
\* waits for an answer
Read(line, atPrompt) ==
  /\ main = "up"
  /\ nlines < MaxLines
  /\ atPrompt => handlers = <<>>
  /\ nlines' = nlines + 1
  /\ cascadeOnly' = (cascadeOnly /\ line \in {"y", "c"})
  /\ UNCHANGED sqlFailures

\* a y that scans whether or not the database was scanned before
MutLineY(atPrompt) ==
  /\ Read("y", atPrompt)
  /\ LET h == NewHandler("y", "softDelete", NoRelation)
     IN /\ scanned' = TRUE
        /\ handlers' = Append(handlers, h)
        /\ log' = Append(log, Ev("softDelete", h, NoRelation, NoRelation, NoStatement))
  /\ UNCHANGED <<options, main, schema, triggers, tableRelations, prompt, run>>
  /\ UNCHANGED migVars

\* sequelize-paranoid-delete.ts:122-132, to the first await
LineY(atPrompt) ==
  /\ Read("y", atPrompt)
  /\ IF scanned
     THEN UNCHANGED <<scanned, handlers, log>>
     ELSE LET h == NewHandler("y", "softDelete", NoRelation)
          IN /\ scanned' = TRUE
             /\ handlers' = Append(handlers, h)
             /\ log' = Append(log, Ev("softDelete", h, NoRelation, NoRelation, NoStatement))
  /\ UNCHANGED <<options, main, schema, triggers, tableRelations, prompt, run>>
  /\ UNCHANGED migVars

\* the listener a line leaves suspended in askForNextRelation (59-60)
AskHandler(line, q) ==
  IF q = <<>> THEN NewHandler(line, "tick", NoRelation)
  ELSE NewHandler(line, "exists", Head(q))

\* sequelize-paranoid-delete.ts:133-142, to the first await; on an empty
\* array the destructuring at 140 throws, 144-148 run at once
LineC(atPrompt) ==
  /\ Read("c", atPrompt)
  /\ IF ~scanned
     THEN UNCHANGED <<handlers, log>>
     ELSE IF tableRelations = <<>>
     THEN /\ handlers' = Append(handlers, AskHandler("c", Shift(tableRelations)))
          /\ UNCHANGED log
     ELSE LET r == tableRelations[1]
              h == NewHandler("c", "create", r)
          IN /\ handlers' = Append(handlers, h)
             /\ log' = Append(log, Ev("create", h, r, prompt,
                                    buildCreateTriggerStatement(
                                      r.referencedTableName, r.referencedColumnName,
                                      r.tableName, r.columnName)))
  /\ UNCHANGED <<options, main, schema, triggers, scanned, tableRelations, prompt, run>>
  /\ UNCHANGED migVars

\* sequelize-paranoid-delete.ts:175-183, to the first await
LineS(atPrompt) ==
  /\ Read("s", atPrompt)
  /\ IF ~scanned
     THEN UNCHANGED <<tableRelations, handlers, log>>
     ELSE LET h == AskHandler("s", Shift(tableRelations))
          IN /\ tableRelations' = Shift(tableRelations)
             /\ handlers' = Append(handlers, h)
             /\ log' = log \o ShiftLog("shift", tableRelations, h, prompt)
                           \o ExistsLog(tableRelations', h)
  /\ UNCHANGED <<options, main, schema, triggers, scanned, prompt, run>>
  /\ UNCHANGED migVars

\* a reserved policy that drops the relation it was given for
MutLineReserved(atPrompt) ==
  /\ \E line \in {"na", "sn", "st"} : Read(line, atPrompt)
  /\ tableRelations' = Shift(tableRelations)
  /\ UNCHANGED <<options, main, schema, triggers, scanned, prompt, handlers, run, log>>
  /\ UNCHANGED migVars

\* sequelize-paranoid-delete.ts:151-174: console.error or console.warn, then
\* rl.prompt()
LineReserved(atPrompt) ==
  /\ \E line \in {"na", "sn", "st"} : Read(line, atPrompt)
  /\ UNCHANGED <<options, main, schema, triggers, scanned, tableRelations, prompt,
                 handlers, run, log>>
  /\ UNCHANGED migVars

\* sequelize-paranoid-delete.ts:184-195
LineHelp(atPrompt) ==
  /\ Read("?", atPrompt)
  /\ UNCHANGED <<options, main, schema, triggers, scanned, tableRelations, prompt,
                 handlers, run, log>>
  /\ UNCHANGED migVars

\* sequelize-paranoid-delete.ts:196-203
LineN(atPrompt) ==
  /\ Read("n", atPrompt)
  /\ IF scanned
     THEN UNCHANGED <<main, handlers, triggers>>
     ELSE Exits("exited0", handlers, triggers)
  /\ UNCHANGED <<options, schema, scanned, tableRelations, prompt, run, log>>
  /\ UNCHANGED migVars

\* sequelize-paranoid-delete.ts:204-211
LineQ(atPrompt) ==
  /\ Read("q", atPrompt)
  /\ IF ~scanned
     THEN UNCHANGED <<main, handlers, triggers>>
     ELSE Exits("exited0", handlers, triggers)
  /\ UNCHANGED <<options, schema, scanned, tableRelations, prompt, run, log>>
  /\ UNCHANGED migVars

\* sequelize-paranoid-delete.ts:212-215
LineOther(atPrompt) ==
  /\ Read("x", atPrompt)
  /\ UNCHANGED <<options, main, schema, triggers, scanned, tableRelations, prompt,
                 handlers, run, log>>
  /\ UNCHANGED migVars

-----------------------------------------------------------------------------
(***************************************************************************)
(* The database answers a statement and the listener that awaited it runs  *)
(* on, through every await of an already settled promise, to its next      *)
(* statement or to its end.                                                *)
(***************************************************************************)

\* sequelize-paranoid-delete.ts:59-67 once tableRelations is q and listener i
\* has nothing left to await but getNextRelation: the session closes on an
\* empty array, else the head is checked
AskNext(i, q, installed) ==
  IF q = <<>>
  THEN Exits("exited0", RemoveAt(handlers, i), installed)
  ELSE /\ handlers' = [handlers EXCEPT ![i].pc = "exists", ![i].relation = Head(q)]
       /\ triggers' = installed
       /\ UNCHANGED main

\* sequelize-paranoid-delete.ts:70-84: the list of soft-delete tables arrives
SoftDeleteAnswers ==
  /\ main = "up"
  /\ NoTick
  /\ \E i \in DOMAIN handlers :
       /\ handlers[i].pc = "softDelete"
       /\ handlers' = [handlers EXCEPT ![i].pc = "foreignKeys"]
       /\ log' = Append(log, Ev("foreignKeys", handlers[i], NoRelation, NoRelation,
                              NoStatement))
  /\ UNCHANGED <<options, main, schema, triggers, scanned, tableRelations, prompt,
                 nlines, run, cascadeOnly, sqlFailures>>
  /\ UNCHANGED migVars

\* sequelize-paranoid-delete.ts:84-95, 129-131: the list of foreign keys
\* arrives
ForeignKeysAnswers ==
  /\ main = "up"
  /\ NoTick
  /\ \E i \in DOMAIN handlers :
       /\ handlers[i].pc = "foreignKeys"
       /\ tableRelations' = getTableRelations(options, getSoftDeleteTableNames, schema)
       /\ log' = log \o ExistsLog(tableRelations', handlers[i])
       /\ AskNext(i, tableRelations', triggers)
  /\ UNCHANGED <<options, schema, scanned, prompt, nlines, run, cascadeOnly, sqlFailures>>
  /\ UNCHANGED migVars

\* an introspection query fails: line 129 throws out of the listener, whose
\* promise nobody handles; node ends the process on an unhandled rejection,
\* or (before node 15) only warns
IntrospectionFails ==
  /\ main = "up"
  /\ NoTick
  /\ \E i \in DOMAIN handlers :
       /\ handlers[i].pc \in {"softDelete", "foreignKeys"}
       /\ log' = Append(log, Ev("introspectionFailed", handlers[i], NoRelation,
                              NoRelation, NoStatement))
       /\ \/ Exits("crashed", RemoveAt(handlers, i), triggers)
          \/ /\ handlers' = RemoveAt(handlers, i)
             /\ UNCHANGED <<main, triggers>>
  /\ UNCHANGED <<options, schema, scanned, tableRelations, prompt, nlines, run,
                 cascadeOnly>>
  /\ sqlFailures' = sqlFailures \cup {"introspection"}
  /\ UNCHANGED migVars

\* sequelize-paranoid-delete.ts:45-56 and 60-66: the existence check answers
ExistsAnswers ==
  /\ main = "up"
  /\ NoTick
  /\ \E i \in DOMAIN handlers :
       LET h == handlers[i]
       IN /\ h.pc = "exists"
          /\ IF triggerExists(h.relation, triggers)
             THEN /\ tableRelations' = Shift(tableRelations)
                  /\ log' = log \o ShiftLog("skip", tableRelations, h, h.relation)
                                \o ExistsLog(tableRelations', h)
                  /\ AskNext(i, tableRelations', triggers)
                  /\ UNCHANGED prompt
             ELSE /\ prompt' = h.relation
                  /\ log' = Append(log, Ev("prompt", h, h.relation,
                                         HeadOf(tableRelations), NoStatement))
                  /\ handlers' = RemoveAt(handlers, i)
                  /\ UNCHANGED <<main, triggers, tableRelations>>
  /\ UNCHANGED <<options, schema, scanned, nlines, run, cascadeOnly, sqlFailures>>
  /\ UNCHANGED migVars

\* sequelize-paranoid-delete.ts:142-148: after the CREATE TRIGGER, whatever
\* its outcome (`answer` is "created" or "failed")
Finally(i, answer, installed) ==
  LET h == handlers[i]
  IN /\ tableRelations' = Shift(tableRelations)
     /\ log' = log \o <<Ev(answer, h, h.relation, NoRelation, NoStatement)>>
                   \o ShiftLog("shift", tableRelations, h, h.relation)
                   \o ExistsLog(tableRelations', h)
     /\ AskNext(i, tableRelations', installed)

\* sequelize-paranoid-delete.ts:142-143: the database creates the trigger
CreateSucceeds ==
  /\ main = "up"
  /\ NoTick
  /\ \E i \in DOMAIN handlers :
       /\ handlers[i].pc = "create"
       /\ InFlightCreates(<<handlers[i]>>) \cap triggers = {}
       /\ Finally(i, "created", triggers \cup InFlightCreates(<<handlers[i]>>))
  /\ UNCHANGED <<options, schema, scanned, prompt, nlines, run, cascadeOnly, sqlFailures>>
  /\ UNCHANGED migVars

\* sequelize-paranoid-delete.ts:144-145: the statement fails (the trigger is
\* there already, or the database refuses for a reason of its own)
CreateFails ==
  /\ main = "up"
  /\ NoTick
  /\ \E i \in DOMAIN handlers :
       /\ handlers[i].pc = "create"
       /\ Finally(i, "failed", triggers)
  /\ UNCHANGED <<options, schema, scanned, prompt, nlines, run, cascadeOnly>>
  /\ sqlFailures' = sqlFailures \cup {"create"}
  /\ UNCHANGED migVars

\* sequelize-paranoid-delete.ts:60-63: the null of getNextRelation arrives
Tick ==
  /\ main = "up"
  /\ \E i \in DOMAIN handlers :
       /\ handlers[i].pc = "tick"
       /\ Exits("exited0", RemoveAt(handlers, i), triggers)
  /\ UNCHANGED <<options, schema, scanned, tableRelations, prompt, nlines, run,
                 cascadeOnly, sqlFailures, log>>
  /\ UNCHANGED migVars

\* the program, once ended, is started a second time on the same database
\* with the same .spdrc
Rerun ==
  /\ main \in {"exited0", "crashed"}
  /\ run = 1
  /\ run' = run + 1
  /\ main' = "start"
  /\ scanned' = FALSE
  /\ tableRelations' = <<>>
  /\ prompt' = NoRelation
  /\ nlines' = 0
  /\ log' = SelectSeq(log, LAMBDA e : e.ev \in {"create", "skip"})
  /\ UNCHANGED <<options, schema, triggers, handlers, cascadeOnly, sqlFailures>>
  /\ UNCHANGED migVars

CliInit ==
  /\ options \in Configs
  /\ main = "start"
  /\ schema \in Schemas
  /\ triggers \in SUBSET {Hash(r) : r \in Range(schema)}
  /\ scanned = FALSE
  /\ tableRelations = <<>>
  /\ prompt = NoRelation
  /\ handlers = <<>>
  /\ nlines = 0
  /\ run = 1
  /\ cascadeOnly = TRUE
  /\ sqlFailures = {}
  /\ log = <<>>

CliIdle ==
  /\ options = [allowListTables |-> Null, denyListTables |-> Null, tenantColumns |-> Null]
  /\ main = "start"
  /\ schema = <<>>
  /\ triggers = {}
  /\ scanned = FALSE
  /\ tableRelations = <<>>
  /\ prompt = NoRelation
  /\ handlers = <<>>
  /\ nlines = 0
  /\ run = 1
  /\ cascadeOnly = TRUE
  /\ sqlFailures = {}
  /\ log = <<>>

Answers ==
  \/ SoftDeleteAnswers
  \/ ForeignKeysAnswers
  \/ IntrospectionFails
  \/ ExistsAnswers
  \/ CreateSucceeds
  \/ CreateFails
  \/ Tick

\* lines arrive whenever the operator, or the pipe on stdin, sends them
Next ==
  \/ Main
  \/ LineY(FALSE)
  \/ LineC(FALSE)
  \/ LineS(FALSE)
  \/ LineReserved(FALSE)
  \/ LineHelp(FALSE)
  \/ LineN(FALSE)
  \/ LineQ(FALSE)
  \/ LineOther(FALSE)
  \/ Answers

\* the operator answers prompts: a line arrives only when no listener is
\* suspended; the program may be run again when it has ended
SeqNext ==
  \/ Main
  \/ LineY(TRUE)
  \/ LineC(TRUE)
  \/ LineS(TRUE)
  \/ LineReserved(TRUE)
  \/ LineHelp(TRUE)
  \/ LineN(TRUE)
  \/ LineQ(TRUE)
  \/ LineOther(TRUE)
  \/ Answers
  \/ Rerun

\* the interactive program is started; no migration runs
Init == CliInit /\ MigIdle

\* a migration file gets its decorated interface; no session runs
InitMig == MigInit /\ CliIdle

\* the operator who gives, at each prompt, a key that is valid there
Confirms == ~scanned /\ LineY(TRUE)
Declines == ~scanned /\ LineN(TRUE)
Cascades == scanned /\ LineC(TRUE)
Skips == scanned /\ LineS(TRUE)
Quits == scanned /\ LineQ(TRUE)

ValidNext ==
  \/ Main
  \/ Confirms
  \/ Declines
  \/ Cascades
  \/ Skips
  \/ Quits
  \/ Answers

Spec == Init /\ [][Next]_vars

SpecSeq == Init /\ [][SeqNext]_vars

SpecMig == InitMig /\ [][MigNext]_vars

\* every statement is answered, and the operator who has confirmed the scan
\* goes on answering the prompts with c or s
SpecLive ==
  /\ Init
  /\ [][ValidNext]_vars
  /\ WF_vars(Main)
  /\ WF_vars(Answers)
  /\ WF_vars(Cascades \/ Skips)

-----------------------------------------------------------------------------
(***************************************************************************)
(* The Migration Interceptor (SpecMig).                                    *)
(***************************************************************************)

\* a column description carries the cascade annotation
Annotated(spec) ==
  /\ spec.isObject
  /\ spec.onDelete = "PARANOID CASCADE"
  /\ spec.references.form # "absent"

\* the key of the parent table: the explicit key, else the resolver's answer,
\* else "id"
ParentKey(spec) ==
  IF spec.references.key # Undefined THEN spec.references.key
  ELSE IF getPrimaryKey.supplied THEN getPrimaryKey.map[spec.references.model]
  ELSE "id"

\* the statement an annotated column `column` of `table` calls for
StatementFor(table, column, spec) ==
  [trigger |-> "on_" \o spec.references.model \o "_delete_update_" \o table,
   onTable |-> spec.references.model,
   updateTable |-> table,
   whereColumn |-> column,
   newColumn |-> ParentKey(spec)]

AnnotatedColumns == {i \in DOMAIN call.args.columns : Annotated(call.args.columns[i])}

\* the wrapper has gone past its await of the underlying operation
Resumed == mpc \in {"await85", "await96", "done"}

\* C1: no create-trigger statement is issued before the underlying addColumn
\* or createTable has completed successfully.
C1_TriggersAfterCommand ==
  queries # <<>> =>
    /\ call.command \in {"addColumn", "createTable"}
    /\ commandPromise.state = "fulfilled"

C1_Witness ==
  /\ call.command = "addColumn"
  /\ queries # <<>>
  /\ queries[1].state = "pending"

\* C2: when the underlying operation fails, annotated or not, no trigger
\* statement is executed and the decorated call fails with the underlying
\* operation's own error.
C2_FailurePath ==
  commandPromise.state = "rejected" =>
    /\ queries = <<>>
    /\ outcome.state # "fulfilled"
    /\ mpc = "done" => outcome = commandPromise

C2_Witness ==
  /\ call.command = "createTable"
  /\ AnnotatedColumns # {}
  /\ commandPromise.state = "rejected"
  /\ outcome = commandPromise

\* a call the interceptor has nothing to add to
PassThrough ==
  \/ call.command \notin {"none", "addColumn", "createTable"}
  \/ call.command \in {"addColumn", "createTable"} /\ AnnotatedColumns = {}

\* C3: the underlying operation is invoked exactly once with the caller's
\* arguments; a call of another operation, or one without annotation, issues
\* no statement and settles as the underlying operation does; a decorated call
\* that is fulfilled is fulfilled with the underlying operation's result.
C3_PassThrough ==
  /\ call.command # "none" => origCalls = <<call.args>>
  /\ PassThrough =>
       /\ queries = <<>>
       /\ outcome \in {Pending, commandPromise}
       /\ mpc = "done" => outcome = commandPromise
  /\ outcome.state = "fulfilled" => outcome = commandPromise

C3_Witness ==
  /\ call.command = "changeColumn"
  /\ Annotated(call.args.columns[1])
  /\ outcome.state = "fulfilled"

\* C4 as amended: a decorated addColumn with the annotation, once its
\* underlying addColumn has succeeded, has issued exactly one create-trigger
\* statement, built from (parentTable, parentKey, tableName, columnName) with
\* parentKey the explicit key, else the resolver's answer, else "id" (and none
\* before that).
C4_AddColumnStatement ==
  call.command = "addColumn" /\ Annotated(call.args.columns[1]) =>
    IF Resumed /\ commandPromise.state = "fulfilled"
    THEN /\ Len(queries) = 1
         /\ queries[1].statement =
              StatementFor(call.args.tableName, call.args.columnName, call.args.columns[1])
    ELSE queries = <<>>

C4_Witness ==
  /\ call.command = "addColumn"
  /\ call.args.columns[1].references.form = "object"
  /\ call.args.columns[1].references.key = Undefined
  /\ getPrimaryKey.supplied
  /\ Len(queries) = 1
  /\ queries[1].statement.newColumn = "customer_no"

\* C4 as claimed: every decorated addColumn with the annotation executes
\* exactly one create-trigger statement.
C4_Original ==
  call.command = "addColumn" /\ Annotated(call.args.columns[1]) /\ mpc = "done" =>
    /\ Len(queries) = 1
    /\ queries[1].statement =
         StatementFor(call.args.tableName, call.args.columnName, call.args.columns[1])

\* the statements of the queries are those of the annotated columns, one each
OnePerAnnotatedColumn ==
  /\ Len(queries) = Cardinality(AnnotatedColumns)
  /\ \A i \in AnnotatedColumns :
       \E j \in DOMAIN queries :
         queries[j].statement =
           StatementFor(call.args.tableName, ColumnNames[i], call.args.columns[i])

C5_State ==
  call.command = "createTable" =>
    IF Resumed /\ commandPromise.state = "fulfilled"
    THEN /\ OnePerAnnotatedColumn
         /\ outcome.state = "fulfilled" => AllFulfilled(queries)
         /\ outcome.state = "rejected" => \E j \in DOMAIN queries : queries[j].state = "rejected"
    ELSE /\ queries = <<>>
         /\ outcome.state = "rejected" => commandPromise.state = "rejected"

\* the statements of one call are all issued in one step, none answered yet
C5_Step ==
  queries' # queries /\ Len(queries') > Len(queries) =>
    /\ queries = <<>>
    /\ \A j \in DOMAIN queries' : queries'[j].state = "pending"

\* C5 as amended: a decorated createTable whose underlying createTable has
\* succeeded has issued exactly one create-trigger statement per annotated
\* column, all of them together; it is fulfilled only when every one of them
\* has succeeded, and it fails only if the underlying createTable or one of
\* the statements has failed.
C5_CreateTableStatements == [](C5_State) /\ [][C5_Step]_vars

\* a later statement is answered while an earlier one is still in flight
C5_Witness ==
  /\ call.command = "createTable"
  /\ Len(queries) = 2
  /\ queries[1].state = "pending"
  /\ queries[2].state = "fulfilled"

\* C5 as claimed: every decorated createTable with annotated columns issues
\* one statement for each of them and fails only if one of them has failed.
C5_Original ==
  call.command = "createTable" /\ AnnotatedColumns # {} /\ mpc = "done" =>
    /\ OnePerAnnotatedColumn
    /\ outcome.state = "fulfilled" => AllFulfilled(queries)
    /\ outcome.state = "rejected" => \E j \in DOMAIN queries : queries[j].state = "rejected"

\* C6: neither a decorated createTable call nor a run of the interactive
\* session issues two create-trigger statements for one
\* (referencedTableName, tableName) pair.
C6_OneTriggerPerPair ==
  /\ \A i, j \in DOMAIN queries :
       queries[i].statement.trigger = queries[j].statement.trigger => i = j
  /\ \A i, j \in DOMAIN log :
       /\ log[i].ev = "create"
       /\ log[j].ev = "create"
       /\ log[i].run = log[j].run
       /\ log[i].statement.trigger = log[j].statement.trigger
       => i = j

-----------------------------------------------------------------------------
(***************************************************************************)
(* The interactive session.  Spec lets a line arrive at any time, as       *)
(* readline does; SpecSeq is the operator who answers prompts, and who may *)
(* run the program a second time.                                          *)
(***************************************************************************)

\* the listeners that await a statement of the session
InFlightSql == {i \in DOMAIN handlers : handlers[i].pc \in AwaitsSql}

\* the entries of the log that listener (r, n) of kind `kind` wrote
EventsOf(kind, r, n) ==
  {k \in DOMAIN log : log[k].ev = kind /\ log[k].run = r /\ log[k].n = n}

SameListener(e, f) == e.run = f.run /\ e.n = f.n

\* the relation was on screen, and at the head of the array, when the line
\* of listener (r, n) was read with no other listener suspended
AtDecision(r, n) ==
  \E k \in EventsOf("create", r, n) :
    log[k].solo /\ log[k].target = log[k].relation

\* the latest existence check issued before entry k of the log, 0 if none
LastCheckBefore(k) ==
  LET checks == {j \in 1..(k - 1) : log[j].ev = "exists"}
  IN IF checks = {} THEN 0 ELSE CHOOSE j \in checks : \A i \in checks : i <= j

\* C7: a relation is prompted only when it is the head of the array and the
\* latest existence check issued before the prompt was its own; the relation
\* an existence check reports as covered is the one removed; and a removal
\* that empties the array closes the session.
C7_SkipIfCovered ==
  /\ \A k \in DOMAIN log :
       log[k].ev = "prompt" =>
         /\ log[k].relation = log[k].target
         /\ LastCheckBefore(k) # 0
         /\ log[LastCheckBefore(k)].relation = log[k].relation
         /\ SameListener(log[LastCheckBefore(k)], log[k])
  /\ \A k \in DOMAIN log :
       log[k].ev = "skip" => log[k].relation = log[k].target
  /\ /\ log # <<>>
     /\ Last(log).ev \in {"shift", "skip"}
     /\ Last(log).run = run
     /\ tableRelations = <<>>
     => \/ main = "exited0"
        \/ \E i \in DOMAIN handlers : handlers[i].pc = "tick"

\* the (parent, child) pair of a relation
PairOf(r) == <<r.referencedTableName, r.tableName>>

\* the relations a run of this configuration on this schema has to cover
ToCover ==
  Range(getTableRelations(options, getSoftDeleteTableNames, schema))

\* what C8 says of two runs
Idempotent ==
  /\ \A i, j \in DOMAIN log :
       /\ log[i].ev = "create"
       /\ log[j].ev = "create"
       /\ log[i].statement.trigger = log[j].statement.trigger
       => i = j
  /\ run = 2 =>
       /\ \A r \in ToCover : Hash(r) \in triggers
       /\ \A k \in DOMAIN log :
            log[k].run = 2 => log[k].ev \notin {"create", "prompt"}
       /\ prompt = NoRelation
       /\ main = "up" /\ scanned => handlers # <<>>

\* the relations of the schema that the filters of the configuration keep
Kept ==
  {r \in Range(schema) : KeepTable(options, r.tableName) /\ KeepRelation(options, r)}

\* the create-trigger statements issued, in either run, for a trigger on
\* `parent` that updates `child`
CreatesFor(parent, child) ==
  {k \in DOMAIN log : /\ log[k].ev = "create"
                      /\ log[k].statement.onTable = parent
                      /\ log[k].statement.updateTable = child}

\* the first run found the pair covered
CoveredBefore(parent, child) ==
  \E k \in DOMAIN log :
    log[k].run = 1 /\ log[k].ev = "skip" /\ PairOf(log[k].relation) = <<parent, child>>

\* C8: when the operator has answered y and then c to every prompt of two
\* runs and no statement has failed, every (parent, child) pair of the
\* filtered schema that was not covered before has had one create-trigger
\* statement in all, and the second run issues none, prompts for no relation
\* and never waits for a decision after the scan.
C8_IdempotentPairs ==
  cascadeOnly /\ sqlFailures = {} =>
    /\ Idempotent
    /\ run = 2 =>
         \A r \in Kept :
           \/ CoveredBefore(r.referencedTableName, r.tableName)
           \/ Cardinality(CreatesFor(r.referencedTableName, r.tableName)) = 1

\* the same two runs counted by trigger name: no name has two
\* create-trigger statements and the second run finds every name installed
C8_PerTriggerName == cascadeOnly /\ sqlFailures = {} => Idempotent

\* C9: at most one statement of the session is in flight; no existence
\* check is under way while another relation is being created; and a
\* relation is removed, or has its trigger created, only when it was the
\* relation on screen as the line was read.
C9_StrictlySequential ==
  /\ Cardinality(InFlightSql) <= 1
  /\ \A i, j \in DOMAIN handlers :
       handlers[i].pc = "create" /\ handlers[j].pc = "exists" =>
         handlers[i].relation = handlers[j].relation
  /\ \A k \in DOMAIN log :
       log[k].ev \in {"create", "shift"} => log[k].relation = log[k].target

\* C10: after a c given at a decision, the statement is the one built for
\* the head relation; when it has succeeded or failed, that relation and no
\* other is removed, and its listener goes on to check the next relation,
\* or the array is empty and the session closes normally.
C10_CreateRecovery ==
  /\ \A k \in DOMAIN log :
       log[k].ev = "create" =>
         log[k].statement =
           buildCreateTriggerStatement(
             log[k].relation.referencedTableName, log[k].relation.referencedColumnName,
             log[k].relation.tableName, log[k].relation.columnName)
  /\ \A k \in DOMAIN log :
       log[k].ev \in {"created", "failed"} /\ AtDecision(log[k].run, log[k].n) =>
         /\ k < Len(log)
         /\ log[k + 1].ev = "shift"
         /\ SameListener(log[k + 1], log[k])
         /\ log[k + 1].relation = log[k].relation
         /\ \/ /\ k + 2 <= Len(log)
               /\ log[k + 2].ev = "exists"
               /\ SameListener(log[k + 2], log[k])
            \/ /\ k + 1 = Len(log)
               /\ tableRelations = <<>>
               /\ main = "exited0"

\* what an invalid line leaves alone: the flag, the array, the session, the
\* listeners, the database and the statements issued
InvalidInputFrame ==
  UNCHANGED <<scanned, tableRelations, main, handlers, triggers, prompt, log>>

\* the decision keys, read before the scan was confirmed
DecisionKey ==
  \/ LineC(FALSE)
  \/ LineS(FALSE)
  \/ LineReserved(FALSE)
  \/ LineHelp(FALSE)
  \/ LineQ(FALSE)

C11_Step ==
  /\ LineOther(FALSE) => InvalidInputFrame
  /\ ~scanned /\ DecisionKey => InvalidInputFrame
  /\ scanned /\ (LineY(FALSE) \/ LineN(FALSE)) => InvalidInputFrame

\* the introspection statements of the current run
Scans == {k \in DOMAIN log : log[k].ev = "softDelete" /\ log[k].run = run}

\* C11: an unrecognized line, a decision key read before the scan was
\* confirmed, and a y or n read after it, change neither the scanned flag nor
\* the array nor the session and issue no statement; a session scans the
\* database at most once.
C11_InvalidInput == [](Cardinality(Scans) <= 1) /\ [][C11_Step]_vars

\* three lines were read, one of them the y that scanned, and the session
\* still waits at its first prompt with nothing removed
C11_Witness ==
  /\ main = "up"
  /\ nlines = 3
  /\ Cardinality(Scans) = 1
  /\ handlers = <<>>
  /\ prompt # NoRelation
  /\ tableRelations # <<>>
  /\ \A k \in DOMAIN log : log[k].ev \notin {"shift", "skip", "create"}

\* the session waits for the operator's decision on the head of the array
AwaitingDecision ==
  /\ main = "up"
  /\ scanned
  /\ handlers = <<>>
  /\ tableRelations # <<>>
  /\ prompt = Head(tableRelations)

\* C12: na, sn, st and ? leave the array as it is, element for element,
\* issue no statement and keep the session open, and the relation on screen
\* stays the one under consideration.
C12_ReservedAndHelp ==
  [][LineReserved(FALSE) \/ LineHelp(FALSE) =>
       /\ UNCHANGED <<scanned, tableRelations, main, handlers, triggers, prompt, log>>
       /\ AwaitingDecision => AwaitingDecision']_vars

\* y was the first line, a second line that was neither y nor c was read,
\* and the session waits for a decision on the first of the two relations
C12_Witness ==
  /\ AwaitingDecision
  /\ nlines = 2
  /\ ~cascadeOnly
  /\ Len(tableRelations) = 2
  /\ \E k \in Scans : log[k].n = 1
  /\ \A k \in DOMAIN log : log[k].ev \notin {"shift", "skip", "create"}

BothListsSet == IsSet(options.allowListTables) /\ IsSet(options.denyListTables)

\* C13: with allowListTables and denyListTables both set the process never
\* gets past main: up() is not called, no line is read, no listener runs and
\* no statement is issued.
C13_FilterExclusivity ==
  BothListsSet =>
    /\ main \in {"start", "threw"}
    /\ ~scanned
    /\ nlines = 0
    /\ handlers = <<>>
    /\ log = <<>>

\* main has thrown on a configuration that sets both lists
C13_Witness == BothListsSet /\ main = "threw"

\* the relation refers to a tenant column of the configuration
CrossesTenants(r) == Includes(options.tenantColumns, r.referencedColumnName)

\* C14: with tenantColumns set, no relation whose referenced column is one
\* of them is in the array, is checked, prompted for or on screen, or has a
\* create-trigger statement issued for it.
C14_TenantExclusion ==
  IsSet(options.tenantColumns) =>
    /\ \A r \in Range(tableRelations) : ~CrossesTenants(r)
    /\ \A i \in DOMAIN handlers : ~CrossesTenants(handlers[i].relation)
    /\ \A k \in DOMAIN log : ~CrossesTenants(log[k].relation)
    /\ ~CrossesTenants(prompt)

\* the database lists a foreign key to a tenant column, and the session is
\* prompting for another relation of the same schema
C14_Witness ==
  /\ IsSet(options.tenantColumns)
  /\ \E r \in Range(schema) : CrossesTenants(r)
  /\ AwaitingDecision
  /\ \E k \in DOMAIN log : log[k].ev = "prompt"

\* the places of `array` that hold a relation of key k
PlacesOf(array, k) == {i \in DOMAIN array : Hash(array[i]) = k}

\* C15: dedupe, applied to the list of foreign keys the database answers
\* with, returns one relation for each trigger name of the list and nothing
\* else, and the relation it returns for a name is the last of the list
\* that has it.
C15_Dedupe ==
  LET out == dedupe(schema)
  IN /\ \A j \in DOMAIN schema :
          Cardinality(PlacesOf(out, Hash(schema[j]))) = 1
     /\ \A i \in DOMAIN out :
          /\ PlacesOf(schema, Hash(out[i])) # {}
          /\ \E j \in PlacesOf(schema, Hash(out[i])) :
               /\ out[i] = schema[j]
               /\ \A m \in PlacesOf(schema, Hash(out[i])) : m <= j

\* the database listed two foreign keys between the same two tables, and
\* the scan of an unfiltered session left the second one alone in the array
C15_Witness ==
  /\ ~IsSet(options.allowListTables)
  /\ ~IsSet(options.denyListTables)
  /\ ~IsSet(options.tenantColumns)
  /\ Len(schema) = 2
  /\ Hash(schema[1]) = Hash(schema[2])
  /\ tableRelations = <<schema[2]>>
  /\ AwaitingDecision

\* the session has fetched its list of relations
Fetched == \E k \in DOMAIN log : log[k].run = run /\ log[k].ev = "exists"

\* C16: two foreign keys of the scanned schema that join different pairs of
\* tables have different trigger names, so that the list dedupe returns
\* still has a relation for every pair the filters let through.
C16_CollisionFree ==
  Fetched =>
    /\ \A r1, r2 \in Range(schema) :
         PairOf(r1) # PairOf(r2) => Hash(r1) # Hash(r2)
    /\ \A r \in Range(schema) :
         KeepTable(options, r.tableName) /\ KeepRelation(options, r) =>
           \E q \in Range(getTableRelations(options, getSoftDeleteTableNames, schema)) :
             PairOf(q) = PairOf(r)

Closed == main \in {"exited0", "crashed"}

C17_Step ==
  /\ Skips /\ AwaitingDecision => Len(tableRelations') < Len(tableRelations)
  /\ CreateSucceeds \/ CreateFails => Len(tableRelations') < Len(tableRelations)
  /\ Declines \/ Quits => main' = "exited0"
  /\ main = "up" /\ main' = "exited0" => Declines \/ Quits \/ tableRelations' = <<>>
  /\ main = "up" /\ main' = "crashed" => "introspection" \in sqlFailures'
  /\ Closed => UNCHANGED <<main, tableRelations, handlers, triggers, log>>

C18_SetupErrorFatal ==
  "introspection" \in sqlFailures =>
    /\ main = "crashed"
    /\ tableRelations = <<>>
    /\ prompt = NoRelation
    /\ \A k \in DOMAIN log : log[k].ev \notin {"prompt", "create"}

\* the introspection that y started has not been answered
Scanning ==
  /\ main = "up"
  /\ \E i \in DOMAIN handlers : handlers[i].pc \in {"softDelete", "foreignKeys"}

\* C19: a c, s or q read while the scan is under way changes nothing: the
\* session stays open, the listener of y stays the only one suspended, no
\* relation is removed and no statement is issued, so that the scan goes on
\* to present its first relation.
C19_NoDecisionWhileScanning ==
  [][Scanning /\ (LineC(FALSE) \/ LineS(FALSE) \/ LineQ(FALSE)) => InvalidInputFrame]_vars

-----------------------------------------------------------------------------
(***************************************************************************)
(* The interceptor again.                                                  *)
(***************************************************************************)
Rejected == {j \in DOMAIN queries : queries[j].state = "rejected"}

C20_State ==
  Rejected # {} =>
    /\ call.command \in {"addColumn", "createTable"}
    /\ commandPromise.state = "fulfilled"
    /\ mpc = "done"
    /\ outcome.state = "rejected"
    /\ \E j \in Rejected : outcome.value = QueryError(j)
    /\ origCalls = <<call.args>>
    /\ call.command = "createTable" => OnePerAnnotatedColumn
    /\ (\E j \in DOMAIN queries : queries[j].state = "pending") => ENABLED QueryFulfils

C20_Step ==
  /\ outcome.state # "pending" => outcome' = outcome
  /\ queries # <<>> =>
       /\ Len(queries') = Len(queries)
       /\ \A j \in DOMAIN queries :
            /\ queries'[j].statement = queries[j].statement
            /\ queries[j].state # "pending" => queries'[j] = queries[j]

\* C20: when a create-trigger statement has failed after a successful
\* addColumn or createTable, the decorated call has failed with the error of
\* a failed statement and stays so; the underlying operation was called once
\* and nothing else was, so the schema change stands; and the other
\* statements of a createTable, all issued before, are still answered.
C20_TriggerFailureSurfaces == [](C20_State) /\ [][C20_Step]_vars

\* a createTable that failed on one statement while the other one succeeded
C20_Witness ==
  /\ call.command = "createTable"
  /\ Len(queries) = 2
  /\ outcome.state = "rejected"
  /\ Cardinality(Rejected) = 1
  /\ AllFulfilled(SelectSeq(queries, LAMBDA q : q.state # "rejected"))
  /\ \E j \in Rejected : outcome.value = QueryError(j)

====
